---- MODULE Spec2Model ----
(***************************************************************************)
(* Model of the FinTS integration: the credential-and-session wrapper      *)
(* (client.py), the setup flow with its pushTAN polling task               *)
(* (config_flow.py) and the sensor layer (sensor.py).                      *)
(*                                                                         *)
(* The protocol library (python-fints) and the host platform are the       *)
(* environment.  Every answer of the library is a nondeterministic choice  *)
(* (a value, a NeedTANResponse, or an exception).  Of the host only the    *)
(* flow-manager contract the code relies on is kept: it calls the handler  *)
(* async_step_<step_id> of the step the flow currently shows, it calls it  *)
(* again without input when the progress task it was handed is done, and   *)
(* it cancels that task once a step result is not a progress result.       *)
(***************************************************************************)
EXTENDS Integers, Sequences, FiniteSets, TLC

\* ------------------------------------------------------------------ bounds

\* FinTsClient wrappers that can be constructed in one behaviour
MaxWrappers == 2
\* for _ in range(6)
MaxPolls == 6

\* ------------------------------------------------------- python values

\* Python's None where a dict or an object is expected
None == [is_none |-> TRUE]
\* Python's None where a string is expected
NoneStr == "None"
\* {}
EmptyDict == [k \in {} |-> ""]

\* truth value of an optional dict (if user_input:)
Truthy(d) == d # None /\ DOMAIN d # {}

\* truth value of an optional string
TruthyStr(s) == s # NoneStr /\ s # ""

\* dict.get(key) on a dict of strings
Get(d, k) == IF k \in DOMAIN d THEN d[k] ELSE NoneStr

CONF_BIN == "bank_identification_number"
CONF_USERNAME == "username"
CONF_PIN == "pin"
CONF_URL == "url"
CONF_NAME == "name"
CONF_PRODUCT_ID == "product_id"

\* ------------------------------------------------------------ inputs

RequiredInput(b) ==
    [bank_identification_number |-> b, username |-> "alice",
     pin |-> "secret", url |-> "https://bank"]

\* what the credentials form can submit: the four required keys, with or
\* without the two optional ones
UserInputs ==
    {RequiredInput("10010010"),
     RequiredInput("20020020") @@ [name |-> "My Bank", product_id |-> "PRODUCT"]}

\* user_input of a call to async_step_wait_for_tan: nothing, the empty dict
\* the polling task sends on success, the dict it sends on timeout
WaitInputs == {None, EmptyDict, [error |-> "timeout"]}

\* the NeedTANResponse objects the bank can answer with: by identity, each
\* decoupled (confirmed in an app) or not
Challenges == {[id |-> 1, decoupled |-> TRUE], [id |-> 2, decoupled |-> FALSE]}
NoChallenge == [id |-> 0, decoupled |-> FALSE]
\* the paused-dialog blobs pause_dialog can return
DialogIds == {1, 2}
WrapperIds == 1..MaxWrappers

\* -------------------------------------------------------- client.py

TypeError == [raised |-> "TypeError"]

BankCredentialsFields == <<"blz", "login", "pin", "url", "product_id", "system_id">>

\* namedtuple("BankCredentials", "blz login pin url product_id system_id"):
\* no field has a default, so every field must be given
BankCredentials(args) ==
    IF Len(args) = Len(BankCredentialsFields)
    THEN [blz |-> args[1], login |-> args[2], pin |-> args[3],
          url |-> args[4], product_id |-> args[5], system_id |-> args[6]]
    ELSE TypeError

\* a wrapper slot no FinTsClient has been constructed in
NoWrapper ==
    [alive |-> FALSE, _credentials |-> None, name |-> NoneStr,
     account_config |-> EmptyDict, holdings_config |-> EmptyDict,
     _account_information |-> EmptyDict, _account_information_fetched |-> FALSE,
     _client |-> 0, constructed |-> 0, returned |-> {}, fetches |-> 0,
     fetch_raised |-> FALSE]

\* FinTsClient.__init__.  Four fields are history: constructed counts the
\* protocol clients built, returned collects the objects the client property
\* has handed out (object n is the n-th built), fetches counts the
\* get_information calls that returned, fetch_raised says that the latest
\* get_information call raised.
FinTsClient(credentials, name, account_config, holdings_config) ==
    [alive |-> TRUE, _credentials |-> credentials, name |-> name,
     account_config |-> account_config, holdings_config |-> holdings_config,
     _account_information |-> EmptyDict, _account_information_fetched |-> FALSE,
     _client |-> 0, constructed |-> 0, returned |-> {}, fetches |-> 0,
     fetch_raised |-> FALSE]

\* the client property without its cache check
client_uncached(w) ==
    [w EXCEPT !._client = w.constructed + 1,
              !.constructed = w.constructed + 1,
              !.returned = @ \cup {w.constructed + 1}]

\* FinTsClient.client: the wrapper after one access of the property
client(w) ==
    IF w._client = 0
    THEN [w EXCEPT !._client = w.constructed + 1,
                   !.constructed = w.constructed + 1,
                   !.returned = @ \cup {w.constructed + 1}]
    ELSE [w EXCEPT !.returned = @ \cup {w._client}]

\* ------------------------------------------------------ config_flow.py

VARIABLES
    wrappers,          \* the FinTsClient objects, by identity
    cur_step,          \* the step result the flow shows
    _pending_client,   \* 0 is None, else a wrapper identity
    _tan_request,      \* NoChallenge is None
    _dialog_data,      \* 0 is None
    _user_input,
    _tan_task,
    _tan_error,
    _tan_sent,
    last_poll,         \* what the latest _send_pending_tan did
    history,           \* what the flow was given and has seen so far
    threads,           \* executor threads inside the client property
    entries,           \* the config entries created
    setups,            \* the sensor setups run, with how each ended
    bank_accounts,     \* what get_sepa_accounts returns to the sensor layer
    bank_information,  \* the "accounts" of what get_information returns
    classified,        \* the latest account classification and its result
    detected,          \* what detect_accounts returned to the sensor setup
    entities,          \* the sensor entities handed to add_entities
    last_call          \* the latest library call of an entity update

vars == <<wrappers, cur_step, _pending_client, _tan_request, _dialog_data,
          _user_input, _tan_task, _tan_error, _tan_sent, last_poll, history, threads,
          entries, setups, bank_accounts, bank_information, classified, detected,
          entities, last_call>>

sensor_vars == <<setups, bank_accounts, bank_information, classified,
                 detected, entities, last_call>>

flow_fields == <<_pending_client, _tan_request, _dialog_data, _user_input,
                 _tan_task, _tan_error, _tan_sent>>

\* _build_user_data_schema: the defaults the form is pre-filled with
_build_user_data_schema(user_input) ==
    IF Truthy(user_input) THEN user_input ELSE EmptyDict

\* async_show_form(step_id="user", ...)
ShowForm(errors, user_input) ==
    [type |-> "form", step_id |-> "user", errors |-> errors,
     defaults |-> _build_user_data_schema(user_input)]

\* async_show_progress(step_id="wait_for_tan", ...)
ShowProgress ==
    [type |-> "progress", step_id |-> "wait_for_tan", errors |-> "",
     defaults |-> EmptyDict]

\* async_show_progress_done(next_step_id="tan_done")
ShowProgressDone ==
    [type |-> "progress_done", step_id |-> "tan_done", errors |-> "",
     defaults |-> EmptyDict]

\* async_create_entry / the abort of _abort_if_unique_id_configured
Finished(type) ==
    [type |-> type, step_id |-> "", errors |-> "", defaults |-> EmptyDict]

\* _tan_task = None
NoTask == [pc |-> "none", polls |-> 0, sleeps |-> 0, success |-> FALSE,
           timed_out |-> FALSE]

\* hass.async_create_task(self._wait_for_tan()): the task before its first sleep
NewTask == [pc |-> "sleep", polls |-> 0, sleeps |-> 0, success |-> FALSE,
            timed_out |-> FALSE]

\* asyncio.Task.done()
TaskDone(t) == t.pc \in {"done", "cancelled"}

TaskRunning(t) == t.pc \in {"sleep", "poll", "polled"}

NoClassified == [fn |-> "none", account |-> None, result |-> "none"]

NoDetected == [ran |-> FALSE, balance |-> <<>>, holdings |-> <<>>]

NoCall == [fn |-> "none", entity |-> 0, wrapper |-> 0, object |-> 0,
           account |-> None]

NoPoll == [ran |-> FALSE, guard |-> FALSE, result |-> FALSE, calls |-> {},
           need_tan_seen |-> FALSE]

\* the threads that can be inside FinTsClient.client next to the thread of
\* the step that runs: the executor job of a polling task that was cancelled
\* while the job ran, and the executor job of an entity update
ThreadIds == {"job", "update"}

\* a thread that is not running.  A running thread has pc "start" (before
\* its access of the property), "construct" (it has read _client as None)
\* or "got" (the property has returned); wrapper is the FinTsClient it is
\* in, entity the entity it updates.
NoThread == [pc |-> "none", wrapper |-> 0, entity |-> 0]

NoThreads == [t \in ThreadIds |-> NoThread]

\* history of a flow nothing was submitted to.  The history observes the
\* flow and is read by no handler.
\*   step            the latest of async_step_user(user_input) and
\*                   async_step_tan_done
\*   user_input      what was submitted
\*   kind            what the probe of that submission came to: an error
\*                   kind of ProbeKinds, "accounts", or "tan" (a challenge)
\*   challenge       the challenge of the probe
\*   paused          the pause_dialog of the probe (or of pause_and_handle,
\*                   pause_for_accounts) returned
\*   raised          the step raised
\*   system_id       what the library reported to async_step_tan_done
\*   poll_succeeded  a poll since the submission returned True
\*   poll_raised     the library calls of the latest poll that raised
NoHistory ==
    [step |-> "none", user_input |-> None, kind |-> "none",
     challenge |-> [id |-> 0, decoupled |-> FALSE], paused |-> FALSE,
     raised |-> FALSE, system_id |-> NoneStr, poll_succeeded |-> FALSE,
     poll_raised |-> {}]

\* the history of a flow that is not observed
HistoryOff == [NoHistory EXCEPT !.step = "off"]

FlowInit(h) ==
    /\ wrappers = [w \in WrapperIds |-> NoWrapper]
    /\ cur_step = ShowForm("", None)
    /\ _pending_client = 0
    /\ _tan_request = NoChallenge
    /\ _dialog_data = 0
    /\ _user_input = None
    /\ _tan_task = NoTask
    /\ _tan_error = FALSE
    /\ _tan_sent = FALSE
    /\ last_poll = NoPoll
    /\ history = h
    /\ threads = NoThreads
    /\ entries = {}
    /\ setups = {}
    /\ bank_accounts = <<>>
    /\ bank_information = <<>>
    /\ classified = NoClassified
    /\ detected = NoDetected
    /\ entities = <<>>
    /\ last_call = NoCall

\* a new FinTSConfigFlow, its fields at their class defaults
Init == FlowInit(HistoryOff)

\* the same, with the flow observed
InitHistory == FlowInit(NoHistory)

\* the history after a handler ran, h where the flow is observed
Record(h) == IF history.step = "off" THEN history ELSE h

\* wrapper identity a new FinTsClient gets: the first unused slot
FreeWrapper == CHOOSE w \in WrapperIds :
    ~wrappers[w].alive /\ \A v \in WrapperIds : v < w => wrappers[v].alive

HasFreeWrapper == \E w \in WrapperIds : ~wrappers[w].alive

\* f"{user_input[CONF_BIN]}-{user_input[CONF_USERNAME]}"
UniqueId(user_input) == <<user_input[CONF_BIN], user_input[CONF_USERNAME]>>

\* user_input.get(CONF_NAME) or user_input[CONF_BIN]
Title(user_input) ==
    IF TruthyStr(Get(user_input, CONF_NAME)) THEN user_input[CONF_NAME]
    ELSE user_input[CONF_BIN]

\* an already-configured check that never finds an entry
Configured_never(uid) == FALSE

\* _abort_if_unique_id_configured: an entry has the unique id
Configured(uid) == \E e \in entries : e.unique_id = uid

\* the step result of async_step_wait_for_tan(user_input)
wait_for_tan_result(user_input, tan_error, stored_input) ==
    IF Truthy(user_input)
    THEN IF tan_error THEN ShowForm("tan_failed", stored_input)
         ELSE ShowProgressDone
    ELSE ShowProgress

\* async_step_wait_for_tan creating a task on every call without input
wait_for_tan_task_always_new(user_input, task) ==
    IF Truthy(user_input) THEN task ELSE NewTask

\* _tan_task after async_step_wait_for_tan(user_input)
wait_for_tan_task(user_input, task) ==
    IF Truthy(user_input) THEN task
    ELSE IF task.pc = "none" \/ TaskDone(task) THEN NewTask ELSE task

\* the host's part of progress_task=: a step result that is no progress
\* result cancels the progress task if it still runs
CancelProgressTask(result, task) ==
    IF result.type # "progress" /\ TaskRunning(task)
    THEN [task EXCEPT !.pc = "cancelled"]
    ELSE task

\* What the library answers during the probe of async_step_user:
\*   raises                  any exception that names no TAN request (from
\*                           the constructor of the protocol client, the
\*                           dialog or get_sepa_accounts)
\*   need_tan_exception      an exception naming NeedTANResponse that carries
\*                           the response
\*   need_tan_no_response    such an exception without a response
\*   init_tan_response       the dialog opened with init_tan_response set
\*   accounts / no_accounts  get_sepa_accounts returned a list
\*   accounts_need_tan       get_sepa_accounts returned a NeedTANResponse
\* pause: pause_dialog of the probe (or of pause_and_handle,
\* pause_for_accounts) returned; repause: the pause_dialog of
\* _handle_tan_challenge returned.
ProbeKinds == {"raises", "need_tan_exception", "need_tan_no_response",
               "init_tan_response", "accounts", "no_accounts",
               "accounts_need_tan"}

\* an answer whose unread parts have their first value
ProbeAnswerRead(a) ==
    LET first_challenge == [id |-> 1, decoupled |-> TRUE]
    IN  CASE a.kind \in {"raises", "need_tan_no_response", "accounts",
                         "no_accounts"} ->
               a.challenge = first_challenge /\ a.pause /\ a.repause
               /\ a.dialog = 1
          [] a.kind = "init_tan_response" ->
               a.repause /\ (~a.pause => a.challenge = first_challenge
                                          /\ a.dialog = 1)
          [] a.kind \in {"need_tan_exception", "accounts_need_tan"} ->
               /\ a.pause => a.repause
               /\ (~a.pause /\ ~a.repause) => a.dialog = 1

ProbeAnswers ==
    {a \in [kind : ProbeKinds, challenge : Challenges, pause : BOOLEAN,
            repause : BOOLEAN, dialog : DialogIds] : ProbeAnswerRead(a)}

\* _handle_tan_challenge storing dialog_data as it was handed in, without
\* pausing the dialog itself when none was handed in
_handle_tan_challenge_as_given(user_input, w, challenge, dialog_data, a) ==
    [raised |-> FALSE, _pending_client |-> w, _tan_request |-> challenge,
     _dialog_data |-> dialog_data, _user_input |-> user_input,
     _tan_task |-> NoTask, _tan_error |-> FALSE, _tan_sent |-> FALSE]

\* _handle_tan_challenge without its last three assignments: the polling
\* task and the flags stay what the earlier attempt left
_handle_tan_challenge_keeps_flags(user_input, w, challenge, dialog_data, a) ==
    IF dialog_data # 0 \/ a.repause
    THEN [raised |-> FALSE, _pending_client |-> w, _tan_request |-> challenge,
          _dialog_data |-> IF dialog_data # 0 THEN dialog_data ELSE a.dialog,
          _user_input |-> user_input, _tan_task |-> _tan_task,
          _tan_error |-> _tan_error, _tan_sent |-> _tan_sent]
    ELSE [raised |-> TRUE, _pending_client |-> w, _tan_request |-> challenge,
          _dialog_data |-> _dialog_data, _user_input |-> _user_input,
          _tan_task |-> _tan_task, _tan_error |-> _tan_error,
          _tan_sent |-> _tan_sent]

\* _handle_tan_challenge: the flow fields afterwards; raised when its own
\* pause_dialog call raised, which leaves the later assignments undone
_handle_tan_challenge(user_input, w, challenge, dialog_data, a) ==
    IF dialog_data # 0 \/ a.repause
    THEN [raised |-> FALSE, _pending_client |-> w, _tan_request |-> challenge,
          _dialog_data |-> IF dialog_data # 0 THEN dialog_data ELSE a.dialog,
          _user_input |-> user_input, _tan_task |-> NoTask,
          _tan_error |-> FALSE, _tan_sent |-> FALSE]
    ELSE [raised |-> TRUE, _pending_client |-> w, _tan_request |-> challenge,
          _dialog_data |-> _dialog_data, _user_input |-> _user_input,
          _tan_task |-> _tan_task, _tan_error |-> _tan_error,
          _tan_sent |-> _tan_sent]

\* the TAN branch of async_step_user: _handle_tan_challenge, then
\* async_step_wait_for_tan()
EnterTanWait(user_input, w, challenge, dialog_data, a) ==
    LET h == _handle_tan_challenge(user_input, w, challenge, dialog_data, a)
    IN  /\ _pending_client' = h._pending_client
        /\ _tan_request' = h._tan_request
        /\ _dialog_data' = h._dialog_data
        /\ _user_input' = h._user_input
        /\ _tan_error' = h._tan_error
        /\ _tan_sent' = h._tan_sent
        /\ _tan_task' = IF h.raised THEN h._tan_task
                        ELSE wait_for_tan_task(None, h._tan_task)
        /\ cur_step' = IF h.raised THEN cur_step
                       ELSE wait_for_tan_result(None, h._tan_error, h._user_input)
        /\ UNCHANGED entries

\* an error exit of async_step_user that fills the form from the input the
\* flow had stored before
ShowUserError_stored_input(error, user_input) ==
    /\ _user_input' = user_input
    /\ cur_step' = ShowForm(error, _user_input)
    /\ UNCHANGED <<_pending_client, _tan_request, _dialog_data, _tan_task,
                   _tan_error, _tan_sent, entries>>

\* the error exit of async_step_user
ShowUserError(error, user_input) ==
    /\ _user_input' = user_input
    /\ cur_step' = ShowForm(error, user_input)
    /\ UNCHANGED <<_pending_client, _tan_request, _dialog_data, _tan_task,
                   _tan_error, _tan_sent, entries>>

\* the direct exit of async_step_user: unique id, abort check, entry
CreateEntryDirect(user_input) ==
    /\ IF Configured(UniqueId(user_input))
       THEN /\ cur_step' = Finished("abort")
            /\ UNCHANGED entries
       ELSE /\ cur_step' = Finished("create_entry")
            /\ entries' = entries \cup
                 {[unique_id |-> UniqueId(user_input),
                   title |-> Title(user_input), data |-> user_input]}
    /\ UNCHANGED flow_fields

\* a user step that hands the wrapper on without an access of its client
\* property
first_accesses_none(w) == w

\* the accesses of the client property by the user step before anything
\* else holds the wrapper: client.client as the argument of the bootstrap
\* job (in the event loop), then "with client.client" of the probe
first_accesses(w) == client(client(w))

\* async_step_user(user_input) with a submitted form
async_step_user(user_input, a) ==
    /\ cur_step.type = "form"
    /\ HasFreeWrapper
    /\ LET w == FreeWrapper
           credentials ==
               BankCredentials(<<user_input[CONF_BIN], user_input[CONF_USERNAME],
                                 user_input[CONF_PIN], user_input[CONF_URL],
                                 Get(user_input, CONF_PRODUCT_ID), NoneStr>>)
           fresh == FinTsClient(credentials, Title(user_input), EmptyDict,
                                EmptyDict)
           probed == first_accesses(fresh)
           \* "with client.client" of pause_and_handle / pause_for_accounts
           paused == client(probed)
           kind == a.kind
           first_pause == IF a.pause THEN a.dialog ELSE 0
           tan == \/ kind \in {"need_tan_exception", "accounts_need_tan"}
                  \/ kind = "init_tan_response" /\ a.pause
           raised == tan /\ _handle_tan_challenge(user_input, w, a.challenge,
                                                  first_pause, a).raised
       IN  /\ credentials # TypeError
           /\ UNCHANGED threads
           /\ history' = Record([NoHistory EXCEPT
                             !.step = "user", !.user_input = user_input,
                             !.kind = IF tan THEN "tan" ELSE kind,
                             !.challenge = IF tan THEN a.challenge ELSE @,
                             !.paused = tan /\ a.pause,
                             !.raised = raised])
           /\ CASE kind \in {"raises", "need_tan_no_response"} ->
                     /\ wrappers' = [wrappers EXCEPT ![w] = probed]
                     /\ ShowUserError("unknown", user_input)
                [] kind = "need_tan_exception" ->
                     /\ wrappers' = [wrappers EXCEPT ![w] = paused]
                     /\ EnterTanWait(user_input, w, a.challenge, first_pause, a)
                [] kind = "init_tan_response" /\ a.pause ->
                     /\ wrappers' = [wrappers EXCEPT ![w] = probed]
                     /\ EnterTanWait(user_input, w, a.challenge, a.dialog, a)
                [] kind = "init_tan_response" /\ ~a.pause ->
                     /\ wrappers' = [wrappers EXCEPT ![w] = probed]
                     /\ ShowUserError("unknown", user_input)
                [] kind = "accounts_need_tan" ->
                     /\ wrappers' = [wrappers EXCEPT ![w] = paused]
                     /\ EnterTanWait(user_input, w, a.challenge, first_pause, a)
                [] kind = "accounts" ->
                     /\ wrappers' = [wrappers EXCEPT ![w] = probed]
                     /\ CreateEntryDirect(user_input)
                [] kind = "no_accounts" ->
                     /\ wrappers' = [wrappers EXCEPT ![w] = probed]
                     /\ ShowUserError("cannot_connect", user_input)
    /\ UNCHANGED <<last_poll, sensor_vars>>

\* async_step_user(None): the empty credentials form
async_step_user_form ==
    /\ cur_step.type = "form"
    /\ cur_step' = ShowForm("", None)
    /\ UNCHANGED <<wrappers, flow_fields, last_poll, history, threads, entries,
                   sensor_vars>>

\* What the library answers during one _send_pending_tan:
\*   enter      "with client" opened the dialog (FALSE: it raised)
\*   accounts   get_sepa_accounts: a list with accounts, an empty list, a
\*              NeedTANResponse, or an exception
\*   tan        send_tan: a response that is no NeedTANResponse, a
\*              NeedTANResponse (challenge), or an exception
\*   pause      pause_dialog returned (dialog) rather than raised
\* an answer whose unread parts have their first value
PollAnswerRead(a) ==
    LET first_challenge == [id |-> 1, decoupled |-> TRUE]
        tan_read == a.enter /\ a.accounts \in {"empty", "raise"}
    IN  /\ ~a.enter => a.accounts = "empty"
        /\ ~tan_read => a.tan = "ok"
        /\ ~(tan_read /\ a.tan = "need_tan") =>
               a.challenge = first_challenge /\ a.pause
        /\ ~(tan_read /\ a.tan = "need_tan" /\ a.pause) => a.dialog = 1

PollAnswers ==
    {a \in [enter : BOOLEAN,
            accounts : {"accounts", "empty", "need_tan", "raise"},
            tan : {"ok", "need_tan", "raise"}, challenge : Challenges,
            pause : BOOLEAN, dialog : DialogIds] : PollAnswerRead(a)}

\* a tail of _send_pending_tan whose handler does not mark the error when
\* send_tan or pause_dialog raises
send_tan_tail_unmarked(f, a) ==
    LET g == [f EXCEPT !.calls = @ \cup {"send_tan"}]
    IN  CASE a.tan = "raise" ->
               [g EXCEPT !.result = FALSE, !.raised = @ \cup {"send_tan"}]
          [] a.tan = "need_tan" /\ a.pause ->
               [g EXCEPT !._tan_request = a.challenge,
                         !._dialog_data = a.dialog,
                         !.calls = @ \cup {"pause_dialog"},
                         !.need_tan_seen = TRUE, !.result = FALSE]
          [] a.tan = "need_tan" /\ ~a.pause ->
               [g EXCEPT !._tan_request = a.challenge,
                         !.calls = @ \cup {"pause_dialog"},
                         !.need_tan_seen = TRUE, !.result = FALSE,
                         !.raised = @ \cup {"pause_dialog"}]
          [] a.tan = "ok" ->
               [g EXCEPT !.result = TRUE]

\* the tail of _send_pending_tan from send_tan on: f holds the flow fields
\* the poll has produced so far and the calls it has made
send_tan_tail(f, a) ==
    LET g == [f EXCEPT !.calls = @ \cup {"send_tan"}]
    IN  CASE a.tan = "raise" ->
               [g EXCEPT !._tan_error = TRUE, !.result = FALSE,
                         !.raised = @ \cup {"send_tan"}]
          [] a.tan = "need_tan" /\ a.pause ->
               [g EXCEPT !._tan_request = a.challenge,
                         !._dialog_data = a.dialog,
                         !.calls = @ \cup {"pause_dialog"},
                         !.need_tan_seen = TRUE, !.result = FALSE]
          [] a.tan = "need_tan" /\ ~a.pause ->
               [g EXCEPT !._tan_request = a.challenge,
                         !.calls = @ \cup {"pause_dialog"},
                         !.need_tan_seen = TRUE,
                         !._tan_error = TRUE, !.result = FALSE,
                         !.raised = @ \cup {"pause_dialog"}]
          [] a.tan = "ok" ->
               [g EXCEPT !.result = TRUE]

\* _send_pending_tan: the flow fields it writes, its return value (result),
\* the library calls it made, whether an answer was a NeedTANResponse, and
\* the wrapper after the accesses of its client property
_send_pending_tan(a) ==
    LET f0 == [_tan_request |-> _tan_request, _dialog_data |-> _dialog_data,
               _tan_error |-> _tan_error, _tan_sent |-> _tan_sent,
               guard |-> FALSE, result |-> FALSE, calls |-> {},
               need_tan_seen |-> FALSE, raised |-> {}, wrapper |-> NoWrapper]
    IN  IF _pending_client = 0 \/ _tan_request = NoChallenge
        THEN f0
        ELSE
          LET wr == client(wrappers[_pending_client])
              f1 == [f0 EXCEPT !.guard = TRUE, !.wrapper = wr,
                               !.calls = {"enter"}]
          IN  IF ~a.enter
              THEN [f1 EXCEPT !._tan_error = TRUE, !.raised = {"enter"}]
              ELSE
                LET sent == _tan_sent \/ _tan_request.decoupled
                    f2 == [f1 EXCEPT !._tan_sent = sent]
                    f3 == [f2 EXCEPT !.calls = @ \cup {"get_sepa_accounts"}]
                IN  IF ~sent THEN send_tan_tail(f2, a)
                    ELSE CASE a.accounts = "accounts" ->
                                [f3 EXCEPT !.result = TRUE]
                           [] a.accounts = "need_tan" ->
                                [f3 EXCEPT !.result = TRUE,
                                           !.need_tan_seen = TRUE]
                           [] a.accounts = "empty" ->
                                send_tan_tail(f3, a)
                           [] a.accounts = "raise" ->
                                send_tan_tail(
                                    [f3 EXCEPT !.raised = {"get_sepa_accounts"}],
                                    a)

\* _wait_for_tan: asyncio.sleep(10) returns
TaskSleep ==
    /\ _tan_task.pc = "sleep"
    /\ _tan_task' = [_tan_task EXCEPT !.pc = "poll", !.sleeps = @ + 1]
    /\ UNCHANGED <<wrappers, cur_step, _pending_client, _tan_request,
                   _dialog_data, _user_input, _tan_error, _tan_sent,
                   last_poll, history, threads, entries, sensor_vars>>

\* _wait_for_tan: the executor job _send_pending_tan
TaskPoll(a) ==
    /\ _tan_task.pc = "poll"
    /\ LET r == _send_pending_tan(a)
       IN  /\ _tan_request' = r._tan_request
           /\ _dialog_data' = r._dialog_data
           /\ _tan_error' = r._tan_error
           /\ _tan_sent' = r._tan_sent
           /\ wrappers' = IF r.guard
                          THEN [wrappers EXCEPT ![_pending_client] = r.wrapper]
                          ELSE wrappers
           /\ last_poll' = [ran |-> TRUE, guard |-> r.guard,
                            result |-> r.result, calls |-> r.calls,
                            need_tan_seen |-> r.need_tan_seen]
           /\ UNCHANGED threads
           /\ history' = Record([history EXCEPT
                                   !.poll_succeeded = @ \/ r.result,
                                   !.poll_raised = r.raised])
           /\ _tan_task' = [_tan_task EXCEPT !.pc = "polled",
                                             !.polls = @ + 1,
                                             !.success = r.result]
    /\ UNCHANGED <<cur_step, _pending_client, _user_input, entries, sensor_vars>>

\* _wait_for_tan after a poll, with a loop that runs one round more
TaskContinue_one_more_round ==
    /\ _tan_task.pc = "polled"
    /\ IF _tan_task.success
       THEN /\ cur_step' = wait_for_tan_result(EmptyDict, _tan_error, _user_input)
            /\ _tan_task' = [wait_for_tan_task(EmptyDict, _tan_task)
                               EXCEPT !.pc = "done"]
            /\ UNCHANGED _tan_error
       ELSE IF _tan_task.polls <= MaxPolls
       THEN /\ _tan_task' = [_tan_task EXCEPT !.pc = "sleep"]
            /\ UNCHANGED <<cur_step, _tan_error>>
       ELSE /\ _tan_error' = TRUE
            /\ cur_step' = wait_for_tan_result([error |-> "timeout"], TRUE,
                                               _user_input)
            /\ _tan_task' = [_tan_task EXCEPT !.pc = "done",
                                              !.timed_out = TRUE]
    /\ UNCHANGED <<wrappers, _pending_client, _tan_request, _dialog_data,
                   _user_input, _tan_sent, last_poll, history, threads, entries,
                   sensor_vars>>

\* _wait_for_tan after a poll: on success flow.async_configure(user_input={})
\* and return; otherwise the next round of the loop, or after the last round
\* _tan_error = True and flow.async_configure(user_input={"error": "timeout"})
TaskContinue ==
    /\ _tan_task.pc = "polled"
    /\ IF _tan_task.success
       THEN /\ cur_step' = wait_for_tan_result(EmptyDict, _tan_error, _user_input)
            /\ _tan_task' = [wait_for_tan_task(EmptyDict, _tan_task)
                               EXCEPT !.pc = "done"]
            /\ UNCHANGED _tan_error
       ELSE IF _tan_task.polls < MaxPolls
       THEN /\ _tan_task' = [_tan_task EXCEPT !.pc = "sleep"]
            /\ UNCHANGED <<cur_step, _tan_error>>
       ELSE /\ _tan_error' = TRUE
            /\ cur_step' = wait_for_tan_result([error |-> "timeout"], TRUE,
                                               _user_input)
            /\ _tan_task' = [_tan_task EXCEPT !.pc = "done",
                                              !.timed_out = TRUE]
    /\ UNCHANGED <<wrappers, _pending_client, _tan_request, _dialog_data,
                   _user_input, _tan_sent, last_poll, history, threads, entries,
                   sensor_vars>>

\* async_step_wait_for_tan(user_input), called by the host: for the user, or
\* (without input) when the progress task is done
async_step_wait_for_tan(user_input) ==
    /\ cur_step.type = "progress"
    /\ LET result == wait_for_tan_result(user_input, _tan_error, _user_input)
       IN  /\ cur_step' = result
           /\ _tan_task' = CancelProgressTask(
                               result, wait_for_tan_task(user_input, _tan_task))
    /\ UNCHANGED <<wrappers, _pending_client, _tan_request, _dialog_data,
                   _user_input, _tan_error, _tan_sent, last_poll, history, threads,
                   entries, sensor_vars>>

\* getattr(self._pending_client.client, "system_id", None): the library's
\* part is whether the protocol client has a system id
SystemIds == {NoneStr, "SYSTEM"}

\* entry_data without the system id of the protocol client
entry_data_without_system_id(user_input, system_id) == user_input

\* entry_data of async_step_tan_done
entry_data(user_input, system_id) ==
    IF TruthyStr(system_id) THEN [system_id |-> system_id] @@ user_input
    ELSE user_input

\* async_step_tan_done
async_step_tan_done(library_system_id) ==
    /\ cur_step.type = "progress_done"
    /\ _user_input # None
    /\ LET wr == IF _pending_client # 0 THEN client(wrappers[_pending_client])
                 ELSE NoWrapper
           system_id == IF _pending_client # 0
                        THEN library_system_id ELSE NoneStr
       IN  /\ wrappers' = IF _pending_client # 0
                          THEN [wrappers EXCEPT ![_pending_client] = wr]
                          ELSE wrappers
           /\ UNCHANGED threads
           /\ history' = Record([history EXCEPT !.step = "tan_done",
                                                !.system_id = system_id])
           /\ IF Configured(UniqueId(_user_input))
              THEN /\ cur_step' = Finished("abort")
                   /\ UNCHANGED entries
              ELSE /\ cur_step' = Finished("create_entry")
                   /\ entries' = entries \cup
                        {[unique_id |-> UniqueId(_user_input),
                          title |-> Title(_user_input),
                          data |-> entry_data(_user_input, system_id)]}
    /\ UNCHANGED <<flow_fields, last_poll, sensor_vars>>

\* the next flow: a new FinTSConfigFlow with the class defaults of its
\* fields, shown the empty form by async_step_user(None)
NewFlow ==
    /\ cur_step.type \in {"create_entry", "abort"}
    /\ cur_step' = ShowForm("", None)
    /\ _pending_client' = 0
    /\ _tan_request' = NoChallenge
    /\ _dialog_data' = 0
    /\ _user_input' = None
    /\ _tan_task' = NoTask
    /\ _tan_error' = FALSE
    /\ _tan_sent' = FALSE
    /\ last_poll' = NoPoll
    /\ history' = Record(NoHistory)
    /\ threads' = NoThreads
    /\ UNCHANGED <<wrappers, entries, sensor_vars>>

Next ==
    \/ \E user_input \in UserInputs, a \in ProbeAnswers :
          async_step_user(user_input, a)
    \/ async_step_user_form
    \/ \E user_input \in WaitInputs : async_step_wait_for_tan(user_input)
    \/ TaskSleep
    \/ \E a \in PollAnswers : TaskPoll(a)
    \/ TaskContinue
    \/ \E system_id \in SystemIds : async_step_tan_done(system_id)
    \/ NewFlow

Spec == Init /\ [][Next]_vars

\* The scheduling the flow rests on: the event loop runs the polling task
\* (its sleep ends, its executor job returns, it continues), and the host
\* calls the step again without input once the progress task is done and
\* follows a progress-done result with the next step.
FairSpec ==
    /\ Spec
    /\ WF_vars(TaskSleep)
    /\ WF_vars(\E a \in PollAnswers : TaskPoll(a))
    /\ WF_vars(TaskContinue)
    /\ WF_vars(async_step_wait_for_tan(None))
    /\ WF_vars(\E system_id \in SystemIds : async_step_tan_done(system_id))

\* the flow, observed by its history
SpecHistory == InitHistory /\ [][Next]_vars

\* ------------------------------------------- client.py: classification

\* the SEPAAccount objects of the bank: two with an IBAN, one without
SepaAccounts ==
    {[iban |-> "DE1", accountnumber |-> "N1"],
     [iban |-> "DE2", accountnumber |-> "N2"],
     [iban |-> "", accountnumber |-> "N3"]}

\* the type codes the bank reports: the ends of both ranges, their
\* neighbours, and 0
TypeCodes == {0, 1, 9, 10, 29, 30, 39, 40}

\* an entry of get_information()["accounts"]; the type may be missing
Information(iban, number) ==
    {[iban |-> iban, account_number |-> number]}
    \cup {[iban |-> iban, account_number |-> number, type |-> t] : t \in TypeCodes}

\* truth value of account_information.get("type")
TruthyType(info) == "type" \in DOMAIN info /\ info.type # 0

\* {account["iban"]: account for account in info.get("accounts", [])}
InformationByIban(accounts) ==
    LET last(b) == CHOOSE i \in 1..Len(accounts) :
                       /\ accounts[i].iban = b
                       /\ \A j \in 1..Len(accounts) :
                              accounts[j].iban = b => j <= i
    IN  [b \in {accounts[i].iban : i \in 1..Len(accounts)} |->
            accounts[last(b)]]

\* a fetch that asks the bank whatever the wrapper holds
fetch_information_uncached(w, information_ok) ==
    IF information_ok
    THEN [client(w) EXCEPT
            !._account_information = InformationByIban(bank_information),
            !._account_information_fetched = TRUE,
            !.fetches = @ + 1, !.fetch_raised = FALSE]
    ELSE [client(w) EXCEPT !.fetch_raised = TRUE]

\* the fetch of get_account_information: the wrapper afterwards.
\* information_ok: get_information returned rather than raised.
fetch_information(w, information_ok) ==
    IF w._account_information_fetched THEN w
    ELSE IF information_ok
    THEN [client(w) EXCEPT
            !._account_information = InformationByIban(bank_information),
            !._account_information_fetched = TRUE,
            !.fetches = @ + 1, !.fetch_raised = FALSE]
    ELSE [client(w) EXCEPT !.fetch_raised = TRUE]

\* self._account_information.get(iban)
get_account_information(w, iban) ==
    IF iban \in DOMAIN w._account_information
    THEN w._account_information[iban] ELSE None

\* the account is a key of the explicit config, by IBAN or account number
Listed(info, config) ==
    info.iban \in DOMAIN config \/ info.account_number \in DOMAIN config

\* is_balance_account with the config consulted whatever the type code
is_balance_account_any_listed(w, account) ==
    IF ~TruthyStr(account.iban) THEN FALSE
    ELSE LET info == get_account_information(w, account.iban)
         IN  IF ~Truthy(info) THEN FALSE
             ELSE (TruthyType(info) /\ 1 <= info.type /\ info.type <= 9)
                  \/ Listed(info, w.account_config)

\* is_balance_account, on a wrapper whose information is fetched
is_balance_account(w, account) ==
    IF ~TruthyStr(account.iban) THEN FALSE
    ELSE LET info == get_account_information(w, account.iban)
         IN  IF ~Truthy(info) THEN FALSE
             ELSE IF TruthyType(info)
                  THEN 1 <= info.type /\ info.type <= 9
                  ELSE Listed(info, w.account_config)

\* is_holdings_account, on a wrapper whose information is fetched
is_holdings_account(w, account) ==
    IF ~TruthyStr(account.iban) THEN FALSE
    ELSE LET info == get_account_information(w, account.iban)
         IN  IF ~Truthy(info) THEN FALSE
             ELSE IF TruthyType(info)
                  THEN 30 <= info.type /\ info.type <= 39
                  ELSE Listed(info, w.holdings_config)

\* the wrapper the sensor layer works on
SensorWrapper == CHOOSE w \in WrapperIds : \A v \in WrapperIds : w <= v

BoolStr(b) == IF b THEN "True" ELSE "False"

\* a call of is_balance_account / is_holdings_account on the wrapper: the
\* account without IBAN is answered before any fetch, a failing fetch raises
Classify(fn, account, information_ok) ==
    LET w == wrappers[SensorWrapper]
        fetched == IF TruthyStr(account.iban)
                   THEN fetch_information(w, information_ok) ELSE w
        raised == TruthyStr(account.iban) /\ ~fetched._account_information_fetched
        answer == IF fn = "is_balance_account"
                  THEN is_balance_account(fetched, account)
                  ELSE is_holdings_account(fetched, account)
    IN  /\ w.alive
        /\ wrappers' = [wrappers EXCEPT ![SensorWrapper] = fetched]
        /\ classified' = [fn |-> fn, account |-> account,
                          result |-> IF raised THEN "raised" ELSE BoolStr(answer)]
        /\ UNCHANGED <<cur_step, flow_fields, last_poll, history, threads, entries, setups,
                       bank_accounts, bank_information, detected, entities,
                       last_call>>

IsBalanceAccount(account, information_ok) ==
    Classify("is_balance_account", account, information_ok)

IsHoldingsAccount(account, information_ok) ==
    Classify("is_holdings_account", account, information_ok)

\* the lists of SEPA accounts the bank answers with
AccountLists ==
    {<<>>,
     <<[iban |-> "DE1", accountnumber |-> "N1"]>>,
     <<[iban |-> "DE2", accountnumber |-> "N2"],
       [iban |-> "DE1", accountnumber |-> "N1"]>>,
     <<[iban |-> "DE1", accountnumber |-> "N1"],
       [iban |-> "", accountnumber |-> "N3"],
       [iban |-> "DE2", accountnumber |-> "N2"]>>}

\* the account information the bank answers with: none, the first account
\* alone, or both accounts
InformationLists ==
    {<<>>}
    \cup {<<i>> : i \in Information("DE1", "N1")}
    \cup {<<i, j>> : i \in Information("DE1", "N1"),
                     j \in {[iban |-> "DE2", account_number |-> "N2"],
                            [iban |-> "DE2", account_number |-> "N2", type |-> 30],
                            [iban |-> "DE2", account_number |-> "N2", type |-> 1]}}

\* explicit configs {acc[CONF_ACCOUNT]: acc.get(CONF_NAME)}: none, an
\* account by IBAN with a name, an account by number without a name
AccountConfigs == {EmptyDict, "DE1" :> "Giro", "N1" :> NoneStr}

HoldingsConfigs == {EmptyDict, "N2" :> "Depot", "DE1" :> NoneStr}

\* The wrapper and sensor layer on their own: a FinTsClient as __init__
\* leaves it, for each explicit config, against each answer of the bank.
InitWrapper ==
    /\ \E account_config \in AccountConfigs, holdings_config \in HoldingsConfigs :
          wrappers = [w \in WrapperIds |->
              IF w = SensorWrapper
              THEN FinTsClient(
                       BankCredentials(<<"10010010", "alice", "secret",
                                         "https://bank", "PRODUCT", NoneStr>>),
                       "My Bank", account_config, holdings_config)
              ELSE NoWrapper]
    /\ cur_step = ShowForm("", None)
    /\ _pending_client = 0
    /\ _tan_request = NoChallenge
    /\ _dialog_data = 0
    /\ _user_input = None
    /\ _tan_task = NoTask
    /\ _tan_error = FALSE
    /\ _tan_sent = FALSE
    /\ last_poll = NoPoll
    /\ history = NoHistory
    /\ threads = NoThreads
    /\ entries = {}
    /\ setups = {}
    /\ bank_accounts \in AccountLists
    /\ bank_information \in InformationLists
    /\ classified = NoClassified
    /\ detected = NoDetected
    /\ entities = <<>>
    /\ last_call = NoCall

NextClassify ==
    \/ \E account \in SepaAccounts, information_ok \in BOOLEAN :
          IsBalanceAccount(account, information_ok)
    \/ \E account \in SepaAccounts, information_ok \in BOOLEAN :
          IsHoldingsAccount(account, information_ok)

SpecClassify == InitWrapper /\ [][NextClassify]_vars

\* --------------------------------------- client.py: detect_accounts

RECURSIVE detect_loop_holdings_first(_, _, _, _, _)
\* the loop of detect_accounts asking is_holdings_account first
detect_loop_holdings_first(w, i, balance_accounts, holdings_accounts, information_ok) ==
    IF i > Len(bank_accounts)
    THEN [raised |-> FALSE, wrapper |-> w, balance |-> balance_accounts,
          holdings |-> holdings_accounts]
    ELSE
      LET account == bank_accounts[i]
          fetched == IF TruthyStr(account.iban)
                     THEN fetch_information(w, information_ok) ELSE w
      IN  IF TruthyStr(account.iban) /\ ~fetched._account_information_fetched
          THEN [raised |-> TRUE, wrapper |-> fetched, balance |-> <<>>,
                holdings |-> <<>>]
          ELSE IF is_holdings_account(fetched, account)
          THEN detect_loop_holdings_first(
                   fetched, i + 1, balance_accounts,
                   Append(holdings_accounts, account), information_ok)
          ELSE IF is_balance_account(fetched, account)
          THEN detect_loop_holdings_first(
                   fetched, i + 1, Append(balance_accounts, account),
                   holdings_accounts, information_ok)
          ELSE detect_loop_holdings_first(
                   client(fetched), i + 1, balance_accounts,
                   holdings_accounts, information_ok)

RECURSIVE detect_loop(_, _, _, _, _)
\* the loop of detect_accounts from account i on: the wrapper, the two
\* lists so far; raised when the fetch of the account information raised
detect_loop(w, i, balance_accounts, holdings_accounts, information_ok) ==
    IF i > Len(bank_accounts)
    THEN [raised |-> FALSE, wrapper |-> w, balance |-> balance_accounts,
          holdings |-> holdings_accounts]
    ELSE
      LET account == bank_accounts[i]
          fetched == IF TruthyStr(account.iban)
                     THEN fetch_information(w, information_ok) ELSE w
      IN  IF TruthyStr(account.iban) /\ ~fetched._account_information_fetched
          THEN [raised |-> TRUE, wrapper |-> fetched, balance |-> <<>>,
                holdings |-> <<>>]
          ELSE IF is_balance_account(fetched, account)
          THEN detect_loop(fetched, i + 1, Append(balance_accounts, account),
                           holdings_accounts, information_ok)
          ELSE IF is_holdings_account(fetched, account)
          THEN detect_loop(fetched, i + 1, balance_accounts,
                           Append(holdings_accounts, account), information_ok)
          ELSE detect_loop(client(fetched), i + 1, balance_accounts,
                           holdings_accounts, information_ok)

\* detect_accounts.  sepa_ok: get_sepa_accounts returned rather than raised.
detect_accounts(w, sepa_ok, information_ok) ==
    IF sepa_ok THEN detect_loop(client(w), 1, <<>>, <<>>, information_ok)
    ELSE [raised |-> TRUE, wrapper |-> client(w), balance |-> <<>>,
          holdings |-> <<>>]

\* ------------------------------------------------------------ sensor.py

\* the amounts get_balance and get_holdings answer with
Amounts == {10, 20}

\* account_config.get(key), or f"{fints_name} - {key}" when that is empty
EntityName(config, key, fints_name) ==
    IF TruthyStr(Get(config, key)) THEN <<config[key]>>
    ELSE <<fints_name, " - ", key>>

\* FinTsAccount.__init__
FinTsAccount(wrapper, account, name) ==
    [kind |-> "balance", _client |-> wrapper, _account |-> account,
     _attr_name |-> name, _attr_native_value |-> 0]

\* FinTsHoldingsAccount.__init__
FinTsHoldingsAccount(wrapper, account, name) ==
    [kind |-> "holdings", _client |-> wrapper, _account |-> account,
     _attr_name |-> name, _attr_native_value |-> 0]

\* _create_entities handing the holdings entities a wrapper of their own
_create_entities_second_wrapper(wrapper, fints_name, account_config, holdings_config, balance_accounts, holdings_accounts) ==
    LET kept_balance == SelectSeq(balance_accounts, LAMBDA a :
            ~(DOMAIN account_config # {} /\ a.iban \notin DOMAIN account_config))
        kept_holdings == SelectSeq(holdings_accounts, LAMBDA a :
            ~(DOMAIN holdings_config # {}
              /\ a.accountnumber \notin DOMAIN holdings_config))
    IN  [i \in 1..Len(kept_balance) |->
            FinTsAccount(wrapper, kept_balance[i],
                EntityName(account_config, kept_balance[i].iban, fints_name))]
        \o
        [i \in 1..Len(kept_holdings) |->
            FinTsHoldingsAccount((wrapper % MaxWrappers) + 1, kept_holdings[i],
                EntityName(holdings_config, kept_holdings[i].accountnumber,
                           fints_name))]

\* _create_entities
_create_entities(wrapper, fints_name, account_config, holdings_config, balance_accounts, holdings_accounts) ==
    LET kept_balance == SelectSeq(balance_accounts, LAMBDA a :
            ~(DOMAIN account_config # {} /\ a.iban \notin DOMAIN account_config))
        kept_holdings == SelectSeq(holdings_accounts, LAMBDA a :
            ~(DOMAIN holdings_config # {}
              /\ a.accountnumber \notin DOMAIN holdings_config))
    IN  [i \in 1..Len(kept_balance) |->
            FinTsAccount(wrapper, kept_balance[i],
                EntityName(account_config, kept_balance[i].iban, fints_name))]
        \o
        [i \in 1..Len(kept_holdings) |->
            FinTsHoldingsAccount(wrapper, kept_holdings[i],
                EntityName(holdings_config, kept_holdings[i].accountnumber,
                           fints_name))]

\* the executor job of the sensor setup: client.detect_accounts
DetectAccounts(sepa_ok, information_ok) ==
    /\ wrappers[SensorWrapper].alive
    /\ ~detected.ran
    /\ LET r == detect_accounts(wrappers[SensorWrapper], sepa_ok, information_ok)
       IN  /\ wrappers' = [wrappers EXCEPT ![SensorWrapper] = r.wrapper]
           /\ detected' = IF r.raised THEN detected
                          ELSE [ran |-> TRUE, balance |-> r.balance,
                                holdings |-> r.holdings]
    /\ UNCHANGED <<cur_step, flow_fields, last_poll, history, threads, entries, setups,
                   bank_accounts, bank_information, classified, entities,
                   last_call>>

\* the rest of the sensor setup: _create_entities on the wrapper that ran
\* detect_accounts, then add_entities
CreateEntities ==
    /\ detected.ran
    /\ entities = <<>>
    /\ LET w == wrappers[SensorWrapper]
       IN  entities' = _create_entities(SensorWrapper, w.name, w.account_config,
                                        w.holdings_config, detected.balance,
                                        detected.holdings)
    /\ UNCHANGED <<wrappers, cur_step, flow_fields, last_poll, history, threads, entries,
                   setups,
                   bank_accounts, bank_information, classified, detected,
                   last_call>>

\* an entity's update: the library call it makes and the value it stores
update(e, fn, amount) ==
    LET ent == entities[e]
        w == client(wrappers[ent._client])
    IN  /\ wrappers' = [wrappers EXCEPT ![ent._client] = w]
        /\ last_call' = [fn |-> fn, entity |-> e, wrapper |-> ent._client,
                         object |-> w._client, account |-> ent._account]
        /\ entities' = [entities EXCEPT ![e]._attr_native_value = amount]

\* FinTsAccount.update, get_balance answering amount
FinTsAccount_update(e, amount) ==
    /\ e \in 1..Len(entities)
    /\ entities[e].kind = "balance"
    /\ update(e, "get_balance", amount)
    /\ UNCHANGED <<cur_step, flow_fields, last_poll, history, threads, entries, setups,
                   bank_accounts, bank_information, classified, detected>>

\* FinTsHoldingsAccount.update, the holdings get_holdings answers with
\* having the total value amount
FinTsHoldingsAccount_update(e, amount) ==
    /\ e \in 1..Len(entities)
    /\ entities[e].kind = "holdings"
    /\ update(e, "get_holdings", amount)
    /\ UNCHANGED <<cur_step, flow_fields, last_poll, history, threads, entries, setups,
                   bank_accounts, bank_information, classified, detected>>

\* an entity's update whose library call raises: the call was made, nothing
\* is stored
update_raises(e) ==
    /\ e \in 1..Len(entities)
    /\ update(e, IF entities[e].kind = "balance" THEN "get_balance"
                 ELSE "get_holdings", entities[e]._attr_native_value)
    /\ UNCHANGED <<cur_step, flow_fields, last_poll, history, threads, entries, setups,
                   bank_accounts, bank_information, classified, detected>>

NextSensor ==
    \/ \E sepa_ok \in BOOLEAN, information_ok \in BOOLEAN :
          DetectAccounts(sepa_ok, information_ok)
    \/ CreateEntities
    \/ \E e \in DOMAIN entities, amount \in Amounts : FinTsAccount_update(e, amount)
    \/ \E e \in DOMAIN entities, amount \in Amounts :
          FinTsHoldingsAccount_update(e, amount)
    \/ \E e \in DOMAIN entities : update_raises(e)

SpecSensor == InitWrapper /\ [][NextSensor]_vars

\* ------------------------------------------------- sensor.py: the setups

CONF_ACCOUNTS == "accounts"
CONF_HOLDINGS == "holdings"
CONF_ACCOUNT == "account"

\* the config entries the config flow creates: async_create_entry of
\* async_step_user (data=user_input) and of async_step_tan_done
FlowEntries ==
    {[unique_id |-> UniqueId(u), title |-> Title(u),
      data |-> entry_data(u, system_id)] :
        u \in UserInputs, system_id \in SystemIds}

\* the entries of one installation: _abort_if_unique_id_configured keeps the
\* unique ids apart
EntrySets ==
    {E \in SUBSET FlowEntries :
        \A e1, e2 \in E : e1.unique_id = e2.unique_id => e1 = e2}

\* platform configs PLATFORM_SCHEMA accepts (accounts and holdings default
\* to [], an account's name to None)
YamlConfigs ==
    {RequiredInput("10010010") @@ [accounts |-> <<>>, holdings |-> <<>>],
     RequiredInput("20020020")
        @@ [name |-> "My Bank", product_id |-> "PRODUCT",
            accounts |-> <<[account |-> "DE1", name |-> "Giro"]>>,
            holdings |-> <<[account |-> "N2", name |-> NoneStr]>>],
     RequiredInput("30030030")
        @@ [product_id |-> "PRODUCT", accounts |-> <<>>,
            holdings |-> <<[account |-> "N2", name |-> "Depot"]>>]}

\* data.get(key, [])
GetList(data, key) == IF key \in DOMAIN data THEN data[key] ELSE <<>>

\* {acc[CONF_ACCOUNT]: acc.get(CONF_NAME) for acc in accs}
ConfigDict(accs) ==
    LET last(k) == CHOOSE i \in DOMAIN accs :
                       /\ accs[i][CONF_ACCOUNT] = k
                       /\ \A j \in DOMAIN accs :
                              accs[j][CONF_ACCOUNT] = k => j <= i
    IN  [k \in {accs[i][CONF_ACCOUNT] : i \in DOMAIN accs} |->
            Get(accs[last(k)], CONF_NAME)]

\* the body async_setup_entry and setup_platform share: the credentials from
\* five values, the wrapper, detect_accounts, _create_entities, add_entities
sensor_setup(source, id, data, sepa_ok, information_ok) ==
    LET credentials ==
            BankCredentials(<<data[CONF_BIN], data[CONF_USERNAME],
                              data[CONF_PIN], data[CONF_URL],
                              Get(data, CONF_PRODUCT_ID)>>)
        fints_name == IF CONF_NAME \in DOMAIN data THEN data[CONF_NAME]
                      ELSE data[CONF_BIN]
        account_config == ConfigDict(GetList(data, CONF_ACCOUNTS))
        holdings_config == ConfigDict(GetList(data, CONF_HOLDINGS))
        ended(result) == setups \cup {[source |-> source, id |-> id,
                                       result |-> result]}
    IN  IF credentials = TypeError
        THEN /\ setups' = ended("TypeError")
             /\ UNCHANGED <<wrappers, detected, entities>>
        ELSE /\ HasFreeWrapper
             /\ LET w == FreeWrapper
                    r == detect_accounts(
                             FinTsClient(credentials, fints_name, account_config,
                                         holdings_config),
                             sepa_ok, information_ok)
                IN  /\ wrappers' = [wrappers EXCEPT ![w] = r.wrapper]
                    /\ IF r.raised
                       THEN /\ setups' = ended("raised")
                            /\ UNCHANGED <<detected, entities>>
                       ELSE /\ setups' = ended("entities added")
                            /\ detected' = [ran |-> TRUE, balance |-> r.balance,
                                            holdings |-> r.holdings]
                            /\ entities' = _create_entities(
                                   w, fints_name, account_config,
                                   holdings_config, r.balance, r.holdings)

\* async_setup_entry for a config entry
async_setup_entry(entry, sepa_ok, information_ok) ==
    /\ entry \in entries
    /\ sensor_setup("entry", entry.unique_id, entry.data, sepa_ok, information_ok)
    /\ UNCHANGED <<cur_step, flow_fields, last_poll, history, threads, entries, bank_accounts,
                   bank_information, classified, last_call>>

\* setup_platform for a YAML platform config
setup_platform(config, sepa_ok, information_ok) ==
    /\ sensor_setup("yaml", UniqueId(config), config, sepa_ok, information_ok)
    /\ UNCHANGED <<cur_step, flow_fields, last_poll, history, threads, entries, bank_accounts,
                   bank_information, classified, last_call>>

\* Home Assistant with the entries earlier flows have created, before any
\* sensor setup
InitSetup ==
    /\ wrappers = [w \in WrapperIds |-> NoWrapper]
    /\ cur_step = ShowForm("", None)
    /\ _pending_client = 0
    /\ _tan_request = NoChallenge
    /\ _dialog_data = 0
    /\ _user_input = None
    /\ _tan_task = NoTask
    /\ _tan_error = FALSE
    /\ _tan_sent = FALSE
    /\ last_poll = NoPoll
    /\ history = NoHistory
    /\ threads = NoThreads
    /\ entries \in EntrySets
    /\ setups = {}
    /\ bank_accounts \in AccountLists
    /\ bank_information \in InformationLists
    /\ classified = NoClassified
    /\ detected = NoDetected
    /\ entities = <<>>
    /\ last_call = NoCall

NextSetup ==
    \/ \E entry \in FlowEntries, sepa_ok \in BOOLEAN, information_ok \in BOOLEAN :
          async_setup_entry(entry, sepa_ok, information_ok)
    \/ \E config \in YamlConfigs, sepa_ok \in BOOLEAN, information_ok \in BOOLEAN :
          setup_platform(config, sepa_ok, information_ok)

SpecSetup == InitSetup /\ [][NextSetup]_vars

\* ------------------------------------------------------------- claims

\* C1: once the flow shows wait_for_tan it eventually leaves the waiting
\* state (an entry is created, or the form is shown again); it never stays
\* in wait_for_tan forever.
C1_EventuallyLeavesWait ==
    (cur_step.type = "progress") ~> (cur_step.type # "progress")

\* C2: a polling task that ended on a successful poll has advanced the flow
\* out of the progress step; the flow does not show wait_for_tan again.
C2_SuccessLeavesProgress ==
    (_tan_task.pc = "done" /\ _tan_task.success) => cur_step.type # "progress"

\* C3: a poll reports success only if no answer of the bank during that
\* poll was another NeedTANResponse.
C3_SuccessOnlyWithoutNeedTan ==
    (last_poll.ran /\ last_poll.result) => ~last_poll.need_tan_seen

\* C4: every poll with a pending client and challenge resumes the paused
\* dialog from _dialog_data and calls send_tan before it returns.
C4_PollResumesAndSendsTan ==
    (last_poll.ran /\ last_poll.guard) =>
        {"resume_dialog", "send_tan"} \subseteq last_poll.calls

\* the safety part of C5
C5_LoopShape ==
    /\ _tan_task.polls <= MaxPolls
    /\ _tan_task.pc \in {"sleep", "polled", "done"} =>
           _tan_task.sleeps = _tan_task.polls
    /\ _tan_task.pc = "poll" => _tan_task.sleeps = _tan_task.polls + 1
    /\ _tan_task.pc \in {"sleep", "poll"} => ~_tan_task.success
    /\ _tan_task.timed_out =>
           _tan_task.polls = MaxPolls /\ ~_tan_task.success /\ _tan_task.pc = "done"
    /\ _tan_task.pc = "done" => (_tan_task.success \/ _tan_task.timed_out)
    /\ _tan_task.timed_out => _tan_error

\* C5: a polling task polls at most 6 times, sleeps once before each poll,
\* stops at the first successful poll, takes the timeout exit only after 6
\* unsuccessful polls, and always terminates.
C5_FixedCountPolling ==
    /\ []C5_LoopShape
    /\ TaskRunning(_tan_task) ~> ~TaskRunning(_tan_task)

\* a polling task has taken the timeout exit
C5_Witness ==
    _tan_task.pc = "done" /\ _tan_task.timed_out /\ _tan_task.polls = MaxPolls

\* C6: whenever a polling task exists or the flow shows wait_for_tan, the
\* pending client, the challenge, the user input and the paused dialog are
\* stored.
C6_TanStateStored ==
    (_tan_task.pc # "none" \/ cur_step.type = "progress") =>
        /\ _pending_client # 0
        /\ wrappers[_pending_client].alive
        /\ _tan_request # NoChallenge
        /\ _user_input # None
        /\ _dialog_data # 0

\* the flow shows wait_for_tan and its polling task is about to poll
C6_Witness ==
    cur_step.type = "progress" /\ _tan_task.pc = "poll"

\* C7: the protocol client of a wrapper is constructed at most once, and
\* every access of the client property has returned that one object.
C7_ClientCached ==
    \A w \in WrapperIds :
        /\ wrappers[w].constructed <= 1
        /\ Cardinality(wrappers[w].returned) <= 1
        /\ wrappers[w].returned \subseteq {wrappers[w]._client}

\* the pending wrapper's client has been read by the credential check and
\* by at least two TAN polls
C7_Witness ==
    /\ _pending_client # 0
    /\ wrappers[_pending_client].returned = {1}
    /\ last_poll.ran /\ last_poll.guard
    /\ _tan_task.polls >= 2

\* the account information the bank holds for a SEPA account
BankInformationFor(account) ==
    {bank_information[i] : i \in {j \in DOMAIN bank_information :
                                     bank_information[j].iban = account.iban}}

\* the latest classification answered, and answered as expected(info, lo,
\* hi, config) says for the account information of the account
ClassifiedAs(expected(_, _, _, _)) ==
    classified.result \in {"True", "False"} =>
        LET w == wrappers[SensorWrapper]
            balance == classified.fn = "is_balance_account"
            lo == IF balance THEN 1 ELSE 30
            hi == IF balance THEN 9 ELSE 39
            config == IF balance THEN w.account_config ELSE w.holdings_config
        IN  classified.result =
                BoolStr(/\ TruthyStr(classified.account.iban)
                        /\ \E info \in BankInformationFor(classified.account) :
                               expected(info, lo, hi, config))

TypeCodeOrListed(info, lo, hi, config) ==
    \/ TruthyType(info) /\ lo <= info.type /\ info.type <= hi
    \/ Listed(info, config)

TypeCodeElseListed(info, lo, hi, config) ==
    IF TruthyType(info) THEN lo <= info.type /\ info.type <= hi
    ELSE Listed(info, config)

\* C8 as stated: an account with IBAN and account information is a balance
\* (holdings) account exactly when its type code is in 1..9 (30..39) or it
\* is listed in the account (holdings) config; any other account is neither.
C8_TypeCodeOrConfig == ClassifiedAs(TypeCodeOrListed)

\* C8 as the code has it: an account with IBAN and account information is a
\* balance (holdings) account exactly when its type code is in 1..9 (30..39)
\* or, only if it has no type code or the type code 0, when it is listed in
\* the account (holdings) config; any other account is neither.
C8_TypeCodeElseConfig == ClassifiedAs(TypeCodeElseListed)

\* an account listed in the account config whose type code is outside 1..9
\* has been classified: not a balance account
C8_Witness ==
    /\ classified.fn = "is_balance_account"
    /\ classified.result = "False"
    /\ \E info \in BankInformationFor(classified.account) :
           TruthyType(info) /\ Listed(info, wrappers[SensorWrapper].account_config)

\* C9: no sensor setup, for a config entry of the flow or a YAML platform
\* config, fails while it builds the bank credentials.
C9_SetupBuildsCredentials ==
    \A s \in setups : s.result # "TypeError"

\* the entities of the setup hold the wrapper that ran detect_accounts, and
\* the latest update called the accessor of its entity's kind, for its
\* entity's account, on that wrapper's one cached protocol client
C10_EntitiesOnDetectingWrapper ==
    /\ entities # <<>> => detected.ran
    /\ \A e \in DOMAIN entities : entities[e]._client = SensorWrapper
    /\ detected.ran => /\ wrappers[SensorWrapper].constructed = 1
                       /\ wrappers[SensorWrapper].returned = {1}
    /\ last_call # NoCall =>
           /\ last_call.entity \in DOMAIN entities
           /\ last_call.wrapper = entities[last_call.entity]._client
           /\ last_call.object = wrappers[SensorWrapper]._client
           /\ last_call.account = entities[last_call.entity]._account
           /\ last_call.fn = IF entities[last_call.entity].kind = "balance"
                             THEN "get_balance" ELSE "get_holdings"

\* C10: all entities of one setup hold the wrapper that ran detect_accounts;
\* a balance update calls get_balance and a holdings update get_holdings,
\* each for its own account through the wrapper's cached client; an update
\* changes no entity but its own.
C10_EntitiesShareWrapper ==
    /\ []C10_EntitiesOnDetectingWrapper
    /\ [][\A e \in DOMAIN entities :
            last_call'.entity # e => entities'[e] = entities[e]]_vars

\* a balance entity and a holdings entity of one setup have both been
\* updated
C10_Witness ==
    /\ \E e \in DOMAIN entities :
           entities[e].kind = "balance" /\ entities[e]._attr_native_value # 0
    /\ \E e \in DOMAIN entities :
           entities[e].kind = "holdings" /\ entities[e]._attr_native_value # 0
    /\ last_call.fn = "get_holdings"

\* the entry data the claim expects for the flow that has just created an
\* entry: the submitted input, on the pushTAN path with the key system_id
\* exactly when the protocol client reported a non-empty one
ExpectedEntryData ==
    LET u == history.user_input
    IN  IF history.step = "tan_done" /\ TruthyStr(history.system_id)
        THEN [k \in DOMAIN u \cup {"system_id"} |->
                 IF k = "system_id" THEN history.system_id ELSE u[k]]
        ELSE u

\* the entry of the flow that has just created one holds the expected data
C11_EntryHoldsSubmittedInput ==
    cur_step.type = "create_entry" =>
        \E e \in entries :
            /\ e.unique_id = UniqueId(history.user_input)
            /\ e.data = ExpectedEntryData

\* C11: the persisted data is the submitted input, on the pushTAN path plus
\* system_id iff the protocol client reports a non-empty one; no step between
\* entering wait_for_tan and the creation changes the stored user input.
C11_PersistsSubmittedInput ==
    /\ []C11_EntryHoldsSubmittedInput
    /\ [][cur_step.type \in {"progress", "progress_done"} =>
            _user_input' = _user_input]_vars

\* an entry with a system id has been created after polls of which the
\* latest raised in get_sepa_accounts
C11_Witness ==
    /\ cur_step.type = "create_entry"
    /\ history.step = "tan_done"
    /\ TruthyStr(history.system_id)
    /\ "get_sepa_accounts" \in history.poll_raised

\* the account satisfies is_balance_account on the wrapper of the setup
SatisfiesBalance(account) ==
    is_balance_account(wrappers[SensorWrapper], account)

\* the account satisfies is_holdings_account on the wrapper of the setup
SatisfiesHoldings(account) ==
    is_holdings_account(wrappers[SensorWrapper], account)

\* C12: detect_accounts partitions the bank's accounts: the balance list is
\* the accounts that satisfy is_balance_account, the holdings list those
\* that satisfy is_holdings_account and not is_balance_account, each in the
\* bank's order; no account is in both lists, one that satisfies neither is
\* in none.
C12_DetectPartitions ==
    detected.ran =>
        /\ detected.balance = SelectSeq(bank_accounts, SatisfiesBalance)
        /\ detected.holdings =
               SelectSeq(bank_accounts,
                         LAMBDA a : ~SatisfiesBalance(a) /\ SatisfiesHoldings(a))
        /\ \A i \in DOMAIN detected.balance, j \in DOMAIN detected.holdings :
               detected.balance[i] # detected.holdings[j]
        /\ \A i \in DOMAIN bank_accounts :
               (~SatisfiesBalance(bank_accounts[i])
                /\ ~SatisfiesHoldings(bank_accounts[i])) =>
                   /\ \A j \in DOMAIN detected.balance :
                          detected.balance[j] # bank_accounts[i]
                   /\ \A j \in DOMAIN detected.holdings :
                          detected.holdings[j] # bank_accounts[i]

\* detection has put an account that satisfies both classifications on the
\* balance list, and another account on the holdings list
C12_Witness ==
    /\ detected.ran
    /\ detected.holdings # <<>>
    /\ \E i \in DOMAIN detected.balance :
           SatisfiesHoldings(detected.balance[i])

\* every entry carries the unique id of its own bank identification number
\* and username, and no two entries share them
C13_EntriesUnique ==
    /\ \A e \in entries :
           e.unique_id = <<e.data[CONF_BIN], e.data[CONF_USERNAME]>>
    /\ \A e1, e2 \in entries :
           (/\ e1.data[CONF_BIN] = e2.data[CONF_BIN]
            /\ e1.data[CONF_USERNAME] = e2.data[CONF_USERNAME]) => e1 = e2

\* C13: an entry is created only with the unique id
\* <bank identification number>-<username> set and not configured before,
\* on both creation paths; no two entries share bank identification number
\* and username.
C13_UniqueIdChecked ==
    /\ []C13_EntriesUnique
    /\ [][entries' # entries =>
            \E e \in entries' :
                /\ entries' = entries \cup {e}
                /\ \A f \in entries : f.unique_id # e.unique_id]_vars

\* a flow was aborted because its unique id was configured already
C13_Witness ==
    cur_step.type = "abort" /\ entries # {}

\* a step of async_step_user(user_input): the only handler of the flow that
\* constructs a FinTsClient
UserStepTaken == \E w \in WrapperIds : ~wrappers[w].alive /\ wrappers'[w].alive

\* the error a failed probe is answered with
ProbeError(kind) == IF kind = "no_accounts" THEN "cannot_connect" ELSE "unknown"

\* C14: when the probe of the user step raises an exception that is no TAN
\* request the form is shown again with error 'unknown', when it returns no
\* accounts and needs no TAN with error 'cannot_connect'; in both cases no
\* entry is created, no polling task is created, and the form is pre-filled
\* with the submitted input.
C14_ProbeFailureShowsForm ==
    [][(UserStepTaken /\ history'.kind \in {"raises", "no_accounts"}) =>
          /\ cur_step' = ShowForm(ProbeError(history'.kind), history'.user_input)
          /\ cur_step'.defaults = history'.user_input
          /\ entries' = entries
          /\ _tan_task' = _tan_task
          /\ ~TaskRunning(_tan_task')]_vars

\* a probe raised on a submission that followed a timed-out TAN wait
C14_Witness ==
    /\ history.step = "user" /\ history.kind = "raises"
    /\ cur_step = ShowForm("unknown", history.user_input)
    /\ _tan_task.timed_out

\* the step of the polling task that runs _send_pending_tan
PollStep == _tan_task.pc = "poll" /\ _tan_task'.pc = "polled"

\* the polling task is not ended by a poll: the poll returns to the task (or
\* the task is cancelled by the host), and after an unsuccessful poll that
\* was not the last one the task sleeps for its next attempt
C15_TaskContinues ==
    /\ (_tan_task.pc = "poll" /\ _tan_task' # _tan_task) =>
           _tan_task'.pc \in {"polled", "cancelled"}
    /\ (/\ _tan_task.pc = "polled" /\ _tan_task' # _tan_task
        /\ ~_tan_task.success /\ _tan_task.polls < MaxPolls) =>
           _tan_task'.pc \in {"sleep", "cancelled"}

\* C15 as stated: every exception of the protocol client during a poll is
\* caught by _send_pending_tan, which sets _tan_error and reports the
\* attempt as unsuccessful, and the task continues.
C15_EveryExceptionFailsPoll ==
    [][/\ (PollStep /\ history'.poll_raised # {}) =>
              _tan_error' /\ ~_tan_task'.success
       /\ C15_TaskContinues]_vars

\* C15: no exception of the protocol client during a poll escapes the
\* polling task.  An exception of get_sepa_accounts is logged and the poll
\* goes on to send_tan, _tan_error as it was and the attempt reported as
\* send_tan decides; every other exception sets _tan_error and reports the
\* attempt as unsuccessful.  The task continues with its remaining attempts.
C15_ExceptionsCaught ==
    [][/\ (PollStep /\ history'.poll_raised \ {"get_sepa_accounts"} # {}) =>
              _tan_error' /\ ~_tan_task'.success
       /\ (PollStep /\ history'.poll_raised = {"get_sepa_accounts"}) =>
              /\ _tan_error' = _tan_error
              /\ "send_tan" \in last_poll'.calls
       /\ C15_TaskContinues]_vars

\* get_sepa_accounts and send_tan raised in one poll, and the task sleeps for
\* its next attempt
C15_Witness ==
    /\ history.poll_raised = {"get_sepa_accounts", "send_tan"}
    /\ _tan_error
    /\ _tan_task.pc = "sleep" /\ _tan_task.polls > 0

\* C16: when pause_dialog raised in pause_and_handle or pause_for_accounts
\* after a TAN requirement was detected, the user step still stores the
\* challenge and enters the wait_for_tan step, and no exception propagates
\* out of async_step_user.
C16_PauseFailureTolerated ==
    [][(UserStepTaken /\ history'.kind = "tan" /\ ~history'.paused) =>
          /\ ~history'.raised
          /\ _tan_request' = history'.challenge
          /\ _user_input' = history'.user_input
          /\ cur_step' = ShowProgress]_vars

\* C17: every wait_for_tan a submission enters starts from clean polling
\* state: _tan_sent and _tan_error are false, the polling task is a new one
\* (none was left over), and client, challenge and user input are those of
\* this submission, whatever an earlier attempt of the flow left behind.
C17_CleanPollingState ==
    [][(UserStepTaken /\ cur_step'.type = "progress") =>
          /\ ~_tan_sent'
          /\ ~_tan_error'
          /\ _tan_task' = NewTask
          /\ _pending_client' # 0
          /\ ~wrappers[_pending_client'].alive
          /\ wrappers'[_pending_client'].alive
          /\ _tan_request' = history'.challenge
          /\ _user_input' = history'.user_input]_vars

\* the second wait_for_tan of a flow whose first attempt polled without
\* success and ended in the form again
C17_Witness ==
    /\ cur_step = ShowProgress
    /\ history.step = "user" /\ history.kind = "tan"
    /\ last_poll.ran /\ ~history.poll_succeeded
    /\ _pending_client = 2 /\ wrappers[1].alive
    /\ _tan_task = NewTask /\ ~_tan_error /\ ~_tan_sent

\* the account is on the balance list only because its account number is
\* a key of the explicit account config: its information has no type code
\* and its IBAN is no key
BalanceByNumberOnly(account) ==
    LET w == wrappers[SensorWrapper]
        info == get_account_information(w, account.iban)
    IN  /\ TruthyStr(account.iban)
        /\ Truthy(info)
        /\ ~TruthyType(info)
        /\ info.account_number \in DOMAIN w.account_config
        /\ account.iban \notin DOMAIN w.account_config

\* the accounts of a detected list that the explicit config asks for
Configured_accounts(accounts, config, key(_)) ==
    IF config = EmptyDict THEN accounts
    ELSE SelectSeq(accounts, LAMBDA a : key(a) \in DOMAIN config)

\* the name of the entity of an account
ExpectedName(config, k, fints_name) ==
    IF k \in DOMAIN config /\ config[k] \notin {"", NoneStr}
    THEN <<config[k]>>
    ELSE <<fints_name, " - ", k>>

\* C18: the entities a setup creates are the balance entities of the
\* detected balance accounts whose IBAN is a key of the explicit account
\* config (all of them when it is empty), then the holdings entities likewise
\* by account number; every account that is on the balance list only because
\* its account number is listed in the account config has an entity; an
\* entity is named as configured, or '<bank name> - <IBAN or account number>'.
C18_EntitiesFollowConfig ==
    [][(entities = <<>> /\ entities' # <<>>) =>
          LET w == wrappers[SensorWrapper]
              balance == Configured_accounts(detected.balance, w.account_config,
                                             LAMBDA a : a.iban)
              holdings == Configured_accounts(detected.holdings,
                                              w.holdings_config,
                                              LAMBDA a : a.accountnumber)
          IN  /\ Len(entities') = Len(balance) + Len(holdings)
              /\ \A i \in 1..Len(balance) :
                     /\ entities'[i].kind = "balance"
                     /\ entities'[i]._account = balance[i]
                     /\ entities'[i]._attr_name =
                            ExpectedName(w.account_config, balance[i].iban, w.name)
              /\ \A i \in 1..Len(holdings) :
                     LET e == entities'[Len(balance) + i]
                     IN  /\ e.kind = "holdings"
                         /\ e._account = holdings[i]
                         /\ e._attr_name =
                                ExpectedName(w.holdings_config,
                                             holdings[i].accountnumber, w.name)
              /\ \A i \in 1..Len(detected.balance) :
                     BalanceByNumberOnly(detected.balance[i]) =>
                         \E e \in 1..Len(entities') :
                             /\ entities'[e].kind = "balance"
                             /\ entities'[e]._account = detected.balance[i]]_vars

\* a step of a running polling task itself: it moves on in _wait_for_tan
TaskOwnStep ==
    \/ _tan_task.pc = "sleep" /\ _tan_task'.pc = "poll"
                              /\ _tan_task'.polls = _tan_task.polls
    \/ _tan_task.pc = "poll" /\ _tan_task'.pc = "polled"
                             /\ _tan_task'.polls = _tan_task.polls + 1
    \/ _tan_task.pc = "polled" /\ _tan_task'.pc \in {"sleep", "done"}
                               /\ _tan_task'.polls = _tan_task.polls

\* C19: at most one polling task of the flow runs at any time: a running
\* task is never replaced (it takes its own steps or is cancelled), and a
\* new task appears only where there was none or the previous one was done,
\* whoever invokes the step.
C19_OneTaskRunning ==
    [][/\ (TaskRunning(_tan_task) /\ _tan_task' # _tan_task) =>
              \/ TaskOwnStep
              \/ _tan_task' = [_tan_task EXCEPT !.pc = "cancelled"]
       /\ (_tan_task' = NewTask /\ _tan_task # NewTask) =>
              _tan_task.pc = "none" \/ TaskDone(_tan_task)]_vars

\* the first submission's task ended on a successful poll, the step was
\* invoked again and has created the next task
C19_Witness ==
    /\ cur_step = ShowProgress
    /\ _tan_task = NewTask
    /\ last_poll.ran /\ last_poll.result
    /\ \A w \in WrapperIds : w # _pending_client => ~wrappers[w].alive

\* C20: the form with error 'tan_failed' is shown only when the polling task
\* has ended and no poll since the submission was successful, whatever
\* _tan_error an earlier poll left.
C20_TanFailedOnlyWithoutSuccess ==
    (cur_step.type = "form" /\ cur_step.errors = "tan_failed") =>
        /\ TaskDone(_tan_task)
        /\ ~_tan_task.success
        /\ ~history.poll_succeeded

\* every caller of get_account_information on one wrapper, in any order:
\* is_balance_account, is_holdings_account and detect_accounts
NextLookups ==
    \/ \E account \in SepaAccounts, information_ok \in BOOLEAN :
          IsBalanceAccount(account, information_ok)
    \/ \E account \in SepaAccounts, information_ok \in BOOLEAN :
          IsHoldingsAccount(account, information_ok)
    \/ \E sepa_ok \in BOOLEAN, information_ok \in BOOLEAN :
          DetectAccounts(sepa_ok, information_ok)

SpecLookups == InitWrapper /\ [][NextLookups]_vars

\* the cache of every wrapper is fetched exactly when one get_information
\* call has returned, and then holds what that call answered
C21_CacheState ==
    \A w \in WrapperIds :
        /\ wrappers[w].fetches <= 1
        /\ wrappers[w]._account_information_fetched <=> wrappers[w].fetches = 1
        /\ wrappers[w]._account_information_fetched =>
               /\ ~wrappers[w].fetch_raised
               /\ wrappers[w]._account_information =
                      InformationByIban(bank_information)
        /\ ~wrappers[w]._account_information_fetched =>
               wrappers[w]._account_information = EmptyDict

\* C21: account information is fetched at most once successfully per
\* wrapper: once a get_information call has returned, no later lookup
\* (is_balance_account, is_holdings_account, detect_accounts) calls it
\* again and the cached map stays; while the cache is unfetched, a lookup
\* for an account with an IBAN calls get_information, and a call that raises
\* leaves the cache unfetched.
C21_FetchedAtMostOnce ==
    /\ []C21_CacheState
    /\ [][LET w == wrappers[SensorWrapper]
              v == wrappers'[SensorWrapper]
          IN  /\ w._account_information_fetched =>
                     /\ v.fetches = w.fetches
                     /\ ~v.fetch_raised
                     /\ v._account_information = w._account_information
                     /\ v._account_information_fetched
              /\ (/\ ~w._account_information_fetched
                  /\ classified' # classified
                  /\ TruthyStr(classified'.account.iban)) =>
                     \/ v.fetches = 1 /\ classified'.result # "raised"
                     \/ /\ v.fetch_raised /\ ~v._account_information_fetched
                        /\ classified'.result = "raised"
              /\ (~w._account_information_fetched /\ detected' # detected
                  /\ \E i \in 1..Len(bank_accounts) :
                        TruthyStr(bank_accounts[i].iban)) =>
                     v.fetches = 1]_vars

\* a lookup was answered from the cache that detect_accounts had fetched
C21_Witness ==
    /\ detected.ran
    /\ wrappers[SensorWrapper].fetches = 1
    /\ classified.result \in {"True", "False"}
    /\ TruthyStr(classified.account.iban)
    /\ Len(detected.balance) + Len(detected.holdings) > 0

\* ------------------------------------ FinTsClient.client, thread by thread

\* One step of thread t inside FinTsClient.client of wrapper w, for entity e.
\* The property is not locked: the thread reads _client, and if it has read
\* None it constructs a protocol client and assigns it in a later step, so
\* that other threads run in between.
client_property(t, w, e) ==
    IF threads[t].pc = "construct"
    THEN /\ wrappers' = [wrappers EXCEPT
                           ![w]._client = wrappers[w].constructed + 1,
                           ![w].constructed = wrappers[w].constructed + 1,
                           ![w].returned = @ \cup {wrappers[w].constructed + 1}]
         /\ threads' = [threads EXCEPT ![t].pc = "got"]
    ELSE IF wrappers[w]._client = 0
    THEN /\ threads' = [threads EXCEPT
                          ![t] = [pc |-> "construct", wrapper |-> w, entity |-> e]]
         /\ UNCHANGED wrappers
    ELSE /\ wrappers' = [wrappers EXCEPT ![w].returned = @ \cup {wrappers[w]._client}]
         /\ threads' = [threads EXCEPT
                          ![t] = [pc |-> "got", wrapper |-> w, entity |-> e]]

\* a polling task was cancelled in _wait_for_tan while its executor job
\* _send_pending_tan was pending or running: the job goes on in its thread
LingeringJob ==
    /\ _tan_task.pc = "cancelled"
    /\ _tan_task.sleeps = _tan_task.polls + 1
    /\ threads["job"].pc = "none"
    /\ threads' = [threads EXCEPT !["job"].pc = "start"]
    /\ UNCHANGED <<wrappers, cur_step, flow_fields, last_poll, history, entries,
                   sensor_vars>>

\* the lingering job at "with self._pending_client.client" (after the guard,
\* which ends the job when client or challenge is missing)
JobClientProperty ==
    /\ threads["job"].pc \in {"start", "construct"}
    /\ IF threads["job"].pc = "construct"
       THEN client_property("job", threads["job"].wrapper, 0)
       ELSE IF _pending_client = 0 \/ _tan_request = NoChallenge
       THEN threads' = [threads EXCEPT !["job"] = NoThread] /\ UNCHANGED wrappers
       ELSE client_property("job", _pending_client, 0)
    /\ UNCHANGED <<cur_step, flow_fields, last_poll, history, entries,
                   sensor_vars>>

\* the lingering job from there to its return: its accesses of the property
\* and its writes to the flow are those of _send_pending_tan; no task takes
\* its result
JobPoll(a) ==
    /\ threads["job"].pc = "got"
    /\ LET r == _send_pending_tan(a)
       IN  /\ _tan_request' = r._tan_request
           /\ _dialog_data' = r._dialog_data
           /\ _tan_error' = r._tan_error
           /\ _tan_sent' = r._tan_sent
           /\ wrappers' = IF r.guard
                          THEN [wrappers EXCEPT ![_pending_client] = r.wrapper]
                          ELSE wrappers
           /\ last_poll' = [ran |-> TRUE, guard |-> r.guard,
                            result |-> r.result, calls |-> r.calls,
                            need_tan_seen |-> r.need_tan_seen]
    /\ threads' = [threads EXCEPT !["job"] = NoThread]
    /\ UNCHANGED <<cur_step, _pending_client, _user_input, _tan_task, history,
                   entries, sensor_vars>>

\* FinTsAccount.update / FinTsHoldingsAccount.update in an executor thread
\* of its own, at "bank = self._client.client"
UpdateClientProperty(e) ==
    /\ e \in 1..Len(entities)
    /\ \/ threads["update"].pc = "none"
       \/ threads["update"].pc = "construct" /\ threads["update"].entity = e
    /\ client_property("update", entities[e]._client, e)
    /\ UNCHANGED <<cur_step, flow_fields, last_poll, history, entries, setups,
                   bank_accounts, bank_information, classified, detected,
                   entities, last_call>>

\* that update from the library call on: get_balance / get_holdings answers
\* amount or raises
UpdateCall(amount, ok) ==
    /\ threads["update"].pc = "got"
    /\ LET e == threads["update"].entity
           ent == entities[e]
       IN  /\ last_call' = [fn |-> IF ent.kind = "balance" THEN "get_balance"
                                   ELSE "get_holdings",
                            entity |-> e, wrapper |-> ent._client,
                            object |-> wrappers[ent._client]._client,
                            account |-> ent._account]
           /\ entities' = IF ok
                          THEN [entities EXCEPT ![e]._attr_native_value = amount]
                          ELSE entities
    /\ threads' = [threads EXCEPT !["update"] = NoThread]
    /\ UNCHANGED <<wrappers, cur_step, flow_fields, last_poll, history, entries,
                   setups, bank_accounts, bank_information, classified, detected>>

\* the two programs that share FinTsClient: a config flow (its history is
\* not observed here) and the sensor layer of one setup
FlowRuns == history = HistoryOff
SensorRuns == history = NoHistory

InitThreads == Init \/ InitWrapper

NextThreads ==
    \/ FlowRuns /\ Next
    \/ FlowRuns /\ LingeringJob
    \/ FlowRuns /\ JobClientProperty
    \/ FlowRuns /\ \E a \in PollAnswers : JobPoll(a)
    \/ SensorRuns /\ NextSensor
    \/ SensorRuns /\ \E e \in DOMAIN entities : UpdateClientProperty(e)
    \/ SensorRuns /\ \E amount \in Amounts, ok \in BOOLEAN : UpdateCall(amount, ok)

SpecThreads == InitThreads /\ [][NextThreads]_vars

\* the wrappers more than one thread can reach: the pending client of the
\* flow (the step that runs, the polling job, a lingering job) and the
\* client of the entities (their updates)
SharedWrappers ==
    {w \in WrapperIds : w = _pending_client}
    \cup {entities[e]._client : e \in 1..Len(entities)}

\* C22: the construction of the protocol client is never raced: a wrapper
\* that more than one thread can reach has had its first access of the
\* client property (in the user step, in detect_accounts of the sensor
\* setup), so no thread inside the property ever reads _client as None next
\* to another one, and no wrapper gets two protocol clients.
C22_ConstructionNotRaced ==
    /\ \A w \in SharedWrappers : wrappers[w]._client # 0
    /\ \A t \in ThreadIds : threads[t].pc # "construct"
    /\ \A w \in WrapperIds :
           /\ wrappers[w].constructed <= 1
           /\ wrappers[w].returned \subseteq {wrappers[w]._client}

\* two executor jobs are on one wrapper at once: the lingering job of a
\* cancelled task has passed the property of the pending client while the
\* job of the next task is due on it
C22_Witness ==
    /\ threads["job"].pc = "got"
    /\ threads["job"].wrapper = _pending_client
    /\ _tan_task.pc = "poll"
    /\ wrappers[_pending_client].constructed = 1
====
